---- MODULE Spec2Model ----
(***************************************************************************)
(* Model of the crawl scheduler of devjarus/dual-agent:                    *)
(*   backend/agents/crawler_agent.py  (CrawlerAgent)                       *)
(*   backend/api/crawler.py           (job registry and HTTP handlers)     *)
(*                                                                         *)
(* The process runs one asyncio event loop.  A handler or a generator runs *)
(* without interruption from one suspension point (await that really       *)
(* suspends, or yield) to the next; every action below is one such run.    *)
(* Confidences are in hundredths (0.8 is 80).                              *)
(***************************************************************************)
EXTENDS Integers, Sequences, FiniteSets, TLC

\* ------------------------------------------------------------------ bounds
MaxJobs == 2
MaxSolo == 1
MaxQueued == 2
max_depth == 1
max_pages == 3
DeepMaxDepth == 2
ScenarioMaxDepth == 1
ScenarioMaxPages == 2
AskedMaxDepth == 1
AskedMaxPages == 2

\* CrawlerConfig: max_depth is Field(ge=1, le=10), max_pages Field(ge=1, le=1000)
DepthMin == 1
DepthMax == 10
PagesMin == 1
PagesMax == 1000

\* --------------------------------------------------------------- the web
UrlStart == "https://ex.com"
UrlDocs == "https://ex.com/docs"
UrlApi == "https://ex.com/api"
UrlOther == "https://other.com/page"
UrlImage == "https://other.com/ad.jpg"

Urls == {UrlStart, UrlDocs, UrlApi, UrlOther, UrlImage}

VARIABLES
  env               \* what the process was started with, never changed:
                    \*   site: the web the scraper fetches from
                    \*   max_depth, max_pages: settings.crawler, copied by
                    \*     CrawlerAgent.__init__
                    \*   log: whether the router's calls are logged (history)

\* page_data["links"] of a fetched page.  Site "graph" has a cycle
\* (start <-> docs), a link listed twice, a cross-domain link and an image;
\* on site "scenario" the start page links to /docs and to an image, and
\* /docs has no links; on site "small" the start page has one link, which
\* is cross-domain.
PageLinks(u) ==
  IF env.site = "scenario"
  THEN CASE u = UrlStart -> <<UrlDocs, UrlImage>>
         [] OTHER -> <<>>
  ELSE IF env.site = "small"
  THEN CASE u = UrlStart -> <<UrlOther>>
         [] OTHER -> <<>>
  ELSE CASE u = UrlStart -> <<UrlDocs, UrlOther, UrlApi, UrlDocs>>
         [] u = UrlDocs -> <<UrlStart, UrlImage>>
         [] u = UrlApi -> <<UrlDocs>>
         [] u = UrlOther -> <<UrlDocs>>
         [] OTHER -> <<>>

\* urlparse(url).netloc
Netloc(u) ==
  CASE u = UrlStart -> "ex.com"
    [] u = UrlDocs -> "ex.com"
    [] u = UrlApi -> "ex.com"
    [] u = UrlOther -> "other.com"
    [] u = UrlImage -> "other.com"
    [] OTHER -> ""

\* WebScraper.extract_domain
extract_domain(u) == Netloc(u)

\* link.startswith(("http://", "https://"))
IsHttp(u) == u \in {UrlStart, UrlDocs, UrlApi, UrlOther, UrlImage}

\* HasSkipExtension with an empty list of extensions.
HasSkipExtensionNever(u) == FALSE

\* any(link.lower().endswith(ext) for ext in skip_extensions)
HasSkipExtension(u) == u = UrlImage

\* ----------------------------------------------------- relevance router
Confidences == {20, 65, 95}

\* What ollama.chat does for one call: a JSON object with should_crawl and
\* confidence, a reply json.loads rejects, or an exception.
OracleReplies ==
  [kind : {"ok"}, should_crawl : BOOLEAN, confidence : Confidences]
    \cup {[kind |-> "malformed", should_crawl |-> FALSE, confidence |-> 0],
          [kind |-> "raise", should_crawl |-> FALSE, confidence |-> 0]}

\* The oracle's replies with the confidences at and next to the thresholds.
EdgeReplies ==
  [kind : {"ok"}, should_crawl : BOOLEAN,
   confidence : Confidences \cup {50, 51, 80, 81}]
    \cup {[kind |-> "malformed", should_crawl |-> FALSE, confidence |-> 0],
          [kind |-> "raise", should_crawl |-> FALSE, confidence |-> 0]}

\* No call of the oracle: the router answered from the URL alone.
NoReply == [kind |-> "none", should_crawl |-> FALSE, confidence |-> 0]

\* The router asks the oracle about a link that is HTTP(S) and has none of
\* the skipped extensions.
CallsOracle(link) == IsHttp(link) /\ ~HasSkipExtension(link)

\* What the oracle may answer about a link (on site "scenario" it is
\* positive with confidence 0.95; on site "small" its confidences include
\* the thresholds).
Replies(link) ==
  IF ~CallsOracle(link) THEN {NoReply}
  ELSE IF env.site = "scenario"
       THEN {[kind |-> "ok", should_crawl |-> TRUE, confidence |-> 95]}
  ELSE IF env.site = "small" THEN EdgeReplies
  ELSE OracleReplies

Max(a, b) == IF a >= b THEN a ELSE b

Verdict(s, c) == [should_crawl |-> s, confidence |-> c]

\* ShouldCrawlLink returning the oracle's confidence as it is.
ShouldCrawlLinkNoFloor(link, base_domain, reply) ==
  IF ~IsHttp(link) THEN Verdict(FALSE, 100)
  ELSE IF HasSkipExtension(link) THEN Verdict(FALSE, 100)
  ELSE LET same_domain_score == IF Netloc(link) = base_domain THEN 90 ELSE 30
       IN CASE reply.kind = "raise" -> Verdict(FALSE, 0)
            [] reply.kind = "malformed" ->
                 Verdict(same_domain_score > 50, same_domain_score)
            [] OTHER -> Verdict(reply.should_crawl, reply.confidence)

\* CrawlerAgent._should_crawl_link: (should_crawl, confidence)
ShouldCrawlLink(link, base_domain, reply) ==
  IF ~IsHttp(link) THEN Verdict(FALSE, 100)
  ELSE IF HasSkipExtension(link) THEN Verdict(FALSE, 100)
  ELSE LET link_domain == Netloc(link)
           same_domain_score == IF link_domain = base_domain THEN 90 ELSE 30
       IN CASE reply.kind = "raise" -> Verdict(FALSE, 0)
            [] reply.kind = "malformed" ->
                 Verdict(same_domain_score > 50, same_domain_score)
            [] OTHER ->
                 Verdict(reply.should_crawl,
                         IF link_domain = base_domain
                         THEN Max(reply.confidence, same_domain_score)
                         ELSE reply.confidence)

\* Tier with the auto-admit threshold at 0.9.
TierAdmitsAbove90(v, has_queue) ==
  IF v.should_crawl /\ v.confidence > 90 THEN "admit"
  ELSE IF v.should_crawl /\ 50 < v.confidence /\ v.confidence <= 80 /\ has_queue
       THEN "ask"
  ELSE "reject"

\* Tier admitting a medium-confidence link when there is no steering queue.
TierAdmitsWithoutChannel(v, has_queue) ==
  IF v.should_crawl /\ v.confidence > 80 THEN "admit"
  ELSE IF v.should_crawl /\ 50 < v.confidence /\ v.confidence <= 80
       THEN IF has_queue THEN "ask" ELSE "admit"
  ELSE "reject"

\* Tier with the ties at 0.8 and 0.5 going to the upper tier.
TierTiesUp(v, has_queue) ==
  IF v.should_crawl /\ v.confidence >= 80 THEN "admit"
  ELSE IF v.should_crawl /\ 50 <= v.confidence /\ v.confidence < 80 /\ has_queue
       THEN "ask"
  ELSE "reject"

\* The if / elif of crawl_with_steering on a verdict.
Tier(v, has_queue) ==
  IF v.should_crawl /\ v.confidence > 80 THEN "admit"
  ELSE IF v.should_crawl /\ 50 < v.confidence /\ v.confidence <= 80 /\ has_queue
       THEN "ask"
  ELSE "reject"

\* ------------------------------------------------------------------ state
JobIds == 1 .. MaxJobs
StreamIds == JobIds
SoloStreams == 1 .. MaxSolo
None == 0

VARIABLES
  settings,         \* get_settings().crawler: [max_depth, max_pages]
  active_jobs,      \* _active_jobs: job id -> [url, status]
  steering_queues,  \* _steering_queues: job id -> reference to a Queue
  queue_items,      \* the Queue objects: reference -> decisions waiting
  next_job,         \* the next fresh job id (uuid4)
  visited_urls,     \* _crawler_agent.visited_urls (one agent per process)
  streams           \* the event_stream generators: stream id -> frame

vars == <<env, settings, active_jobs, steering_queues, queue_items, next_job, visited_urls, streams>>

\* _format_sse: an event is its type and payload (fields a type does not
\* carry are left at "", <<>> or 0).
Event(t, u, ls, p, c) ==
  [type |-> t, url |-> u, links |-> ls, total_pages |-> p, total_chunks |-> c]

CrawlingEvent(u) == Event("crawling", u, <<>>, 0, 0)
StoredEvent(u) == Event("stored", u, <<>>, 0, 1)
SteeringNeededEvent(u) == Event("steering_needed", u, <<>>, 0, 0)
DiscoveredEvent(ls) == Event("discovered", "", ls, 0, 0)
CompletedEvent(p, c) == Event("completed", "", <<>>, p, c)
ErrorEvent == Event("error", "", <<>>, 0, 0)

\* The frame of an event_stream generator and of the crawl_with_steering
\* generator it drives: pc is the suspension point, connected whether the
\* client of the response is still reading, page_data what the last
\* fetch_page returned ("none" or "page").  popped (the entries popped so
\* far), timeouts (the steering waits that timed out), calls (the router's
\* calls for the links of the page being processed, when env.log) and taken
\* (the decisions taken from the channel for that page, with the link that
\* was pending, when env.log) are history.
\* NoStream is a generator that was never created.
NoStream ==
  [pc |-> "none", job |-> None, start_url |-> "", steering_queue |-> None,
   queue |-> <<>>, total_pages |-> 0, total_chunks |-> 0,
   url |-> "", depth |-> 0, idx |-> 0, discovered_links |-> <<>>,
   page_data |-> "unset", connected |-> FALSE, events |-> <<>>,
   popped |-> {}, timeouts |-> 0, calls |-> <<>>, taken |-> <<>>]

\* The registry, the agent and the streams after start-up.
Started ==
  /\ settings = [max_depth |-> env.max_depth, max_pages |-> env.max_pages]
  /\ active_jobs = <<>>
  /\ steering_queues = <<>>
  /\ queue_items = [q \in JobIds |-> <<>>]
  /\ next_job = 1
  /\ visited_urls = {}
  /\ streams = [s \in StreamIds |-> NoStream]

Env(site, depth, pages, log) ==
  [site |-> site, max_depth |-> depth, max_pages |-> pages, log |-> log]

Init ==
  /\ env = Env("graph", max_depth, max_pages, FALSE)
  /\ Started

\* dict without key j
Without(d, j) == [k \in DOMAIN d \ {j} |-> d[k]]

\* dict with d[j] = v
With(d, j, v) == [k \in DOMAIN d \cup {j} |-> IF k = j THEN v ELSE d[k]]

\* ------------------------------------------------- crawl_with_steering
Entry(u, d) == [url |-> u, depth |-> d]

\* LoopContinues with the budget test off by one.
LoopContinuesOffByOne(f) == f.queue # <<>> /\ f.total_pages <= env.max_pages

\* The loop condition of the traversal: queue and total_pages < max_pages
LoopContinues(f) == f.queue # <<>> /\ f.total_pages < env.max_pages

\* TooDeep with the depth test off by one.
TooDeepOffByOne(depth) == depth > env.max_depth + 1

\* if depth > self.max_depth: continue
TooDeep(depth) == depth > env.max_depth

\* From the head of the while loop to the next yield: entries are popped
\* until one is neither visited nor too deep (it is marked visited and
\* `crawling` is yielded), or the loop ends and `completed` is yielded.
\* Result: the frame and the agent's visited set.
RECURSIVE LoopHead(_, _)
LoopHead(f, vis) ==
  IF ~LoopContinues(f)
  THEN [f |-> [f EXCEPT !.pc = "finishing", !.calls = <<>>, !.taken = <<>>,
                        !.events = Append(@, CompletedEvent(f.total_pages,
                                                            f.total_chunks))],
        vis |-> vis]
  ELSE LET e == Head(f.queue)
           g == [f EXCEPT !.queue = Tail(@), !.popped = @ \cup {e}]
       IN IF e.url \in vis THEN LoopHead(g, vis)
          ELSE IF TooDeep(e.depth) THEN LoopHead(g, vis)
          ELSE [f |-> [g EXCEPT !.pc = "fetch", !.url = e.url, !.depth = e.depth,
                                !.calls = <<>>, !.taken = <<>>,
                                !.events = Append(@, CrawlingEvent(e.url))],
                vis |-> vis \cup {e.url}]

\* Admit with the entry put at the head of the frontier.
AdmitAtHead(f, link_url) ==
  [f EXCEPT !.queue = <<Entry(link_url, f.depth + 1)>> \o @,
            !.discovered_links = Append(@, link_url)]

\* queue.append((link_url, depth + 1)); discovered_links.append(link_url)
Admit(f, link_url) ==
  [f EXCEPT !.queue = Append(@, Entry(link_url, f.depth + 1)),
            !.discovered_links = Append(@, link_url)]

\* The tiers the oracle's possible replies give a link.
Tiers(link_url, base_domain, has_queue) ==
  {Tier(ShouldCrawlLink(link_url, base_domain, reply), has_queue) :
     reply \in Replies(link_url)}

\* (history) The router's call for link_url is logged.
Logged(f, link_url, reply, verdict) ==
  IF env.log
  THEN [f EXCEPT !.calls = Append(@, [link |-> link_url, reply |-> reply,
                                      verdict |-> verdict])]
  ELSE f

\* The end of the for loop: `discovered` is yielded when a link was admitted,
\* and the generator sleeps.
EndOfPage(f) ==
  [f EXCEPT !.pc = "sleep",
            !.events = IF f.discovered_links # <<>>
                       THEN Append(@, DiscoveredEvent(f.discovered_links))
                       ELSE @]

\* `steering_needed` is yielded for the link at f.idx; the generator then
\* waits on the steering queue.
AskHuman(f, link_url) ==
  [f EXCEPT !.pc = "steer", !.events = Append(@, SteeringNeededEvent(link_url))]

\* The for loop over page_data["links"] from link f.idx to the next yield,
\* for every reply the oracle may give to each link evaluated: the frames
\* the generator may be suspended in.  (Replies that give a link the same
\* tier lead to the same frames unless the calls are logged.)
RECURSIVE ProcessLinks(_, _)

\* The link loop once link_url has its tier; at is the frame at the link and
\* past the frame with the loop moved past it.
AfterLink(at, past, link_url, tier, vis) ==
  CASE tier = "admit" -> ProcessLinks(Admit(past, link_url), vis)
    [] tier = "ask" -> {AskHuman(at, link_url)}
    [] OTHER -> ProcessLinks(past, vis)

ProcessLinks(f, vis) ==
  LET links == PageLinks(f.url) IN
  IF f.idx > Len(links) THEN {EndOfPage(f)}
  ELSE LET link_url == links[f.idx]
           next == [f EXCEPT !.idx = @ + 1]
       IN IF link_url \in vis THEN ProcessLinks(next, vis)
          ELSE IF env.log
          THEN UNION {
                 LET verdict == ShouldCrawlLink(link_url,
                                                extract_domain(f.start_url), reply)
                 IN AfterLink(Logged(f, link_url, reply, verdict),
                              Logged(next, link_url, reply, verdict), link_url,
                              Tier(verdict, f.steering_queue # None), vis) :
                 reply \in Replies(link_url)}
          ELSE UNION {
                 AfterLink(f, next, link_url, tier, vis) :
                 tier \in Tiers(link_url, extract_domain(f.start_url),
                                f.steering_queue # None)}

Frame(s) == streams[s]

\* The stream's generator moves to frame f.
Step(s, f) == streams' = [streams EXCEPT ![s] = f]

\* ------------------------------------------------------------ handlers
\* CrawlRequest: the start URL and the optional overrides.
CrawlRequest(u, depth, pages) == [url |-> u, max_depth |-> depth, max_pages |-> pages]

\* StartCrawl creating the job entry without a steering queue.
StartCrawlWithoutChannel(request) ==
  /\ next_job <= MaxJobs
  /\ active_jobs' = With(active_jobs, next_job,
                         [url |-> request.url, status |-> "pending",
                          request |-> request])
  /\ next_job' = next_job + 1
  /\ UNCHANGED <<env, settings, steering_queues, queue_items, visited_urls, streams>>

\* POST /start.  (request is history: start_crawl stores the URL and the
\* intent of the request and nothing else of it.)
StartCrawl(request) ==
  /\ next_job <= MaxJobs
  /\ steering_queues' = With(steering_queues, next_job, next_job)
  /\ active_jobs' = With(active_jobs, next_job,
                         [url |-> request.url, status |-> "pending",
                          request |-> request])
  /\ next_job' = next_job + 1
  /\ UNCHANGED <<env, settings, queue_items, visited_urls, streams>>

Live == {"init", "fetch", "links", "steer", "sleep", "finishing"}

\* The generator of slot s is over: it returned, raised, or its client left.
Over(s) == Frame(s).pc \in {"done", "raised"} \/ (Frame(s).pc \in Live /\ ~Frame(s).connected)

\* The generator of slot s is suspended and its client pulls the next event.
Resumes(s, at) == Frame(s).pc = at /\ Frame(s).connected

\* GET /jobs/{job_id}/stream: the status becomes running and the response
\* holds a new event_stream generator, not yet started.  (Slot s holds the
\* generator; a slot whose generator is over is free again.)
CrawlStream(j, s) ==
  /\ j \in DOMAIN active_jobs
  /\ Frame(s).pc = "none" \/ Over(s)
  /\ active_jobs' = [active_jobs EXCEPT ![j].status = "running"]
  /\ Step(s, [NoStream EXCEPT !.pc = "init", !.job = j, !.connected = TRUE,
                              !.start_url = active_jobs[j].url])
  /\ UNCHANGED <<env, settings, steering_queues, queue_items, next_job, visited_urls>>

\* The generator's first run: event_stream looks the steering queue up,
\* crawl_with_steering resets the agent's visited set and enters the loop.
Begin(s) ==
  /\ Resumes(s, "init")
  /\ LET j == Frame(s).job
         f == [Frame(s) EXCEPT
                 !.steering_queue = IF j \in DOMAIN steering_queues
                                    THEN steering_queues[j] ELSE None,
                 !.queue = <<Entry(Frame(s).start_url, 0)>>,
                 !.total_pages = 0, !.total_chunks = 0]
         r == LoopHead(f, {})
     IN /\ Step(s, r.f)
        /\ visited_urls' = r.vis
  /\ UNCHANGED <<env, settings, active_jobs, steering_queues, queue_items, next_job>>

\* FetchNone with the failed fetch ending the traversal by an `error`.
FetchNoneIsFatal(s) ==
  /\ Resumes(s, "fetch")
  /\ Step(s, [Frame(s) EXCEPT !.pc = "finishing", !.page_data = "none",
                              !.events = Append(@, ErrorEvent)])
  /\ UNCHANGED <<env, settings, active_jobs, steering_queues, queue_items, next_job, visited_urls>>

\* fetch_page returned None: continue with the loop.
FetchNone(s) ==
  /\ Resumes(s, "fetch")
  /\ LET r == LoopHead([Frame(s) EXCEPT !.page_data = "none"], visited_urls)
     IN /\ Step(s, r.f)
        /\ visited_urls' = r.vis
  /\ UNCHANGED <<env, settings, active_jobs, steering_queues, queue_items, next_job>>

\* fetch_page returned a page and store_knowledge raised: the generator's
\* except clause yields `error`.
StoreRaises(s) ==
  /\ Resumes(s, "fetch")
  /\ Step(s, [Frame(s) EXCEPT !.pc = "finishing", !.page_data = "page",
                              !.events = Append(@, ErrorEvent)])
  /\ UNCHANGED <<env, settings, active_jobs, steering_queues, queue_items, next_job, visited_urls>>

\* FetchStored yielding `stored` without counting the page.
FetchStoredUncounted(s) ==
  /\ Resumes(s, "fetch")
  /\ Step(s, [Frame(s) EXCEPT !.pc = "links", !.page_data = "page",
                              !.calls = <<>>, !.taken = <<>>,
                              !.idx = 1, !.discovered_links = <<>>,
                              !.events = Append(@, StoredEvent(Frame(s).url))])
  /\ UNCHANGED <<env, settings, active_jobs, steering_queues, queue_items, next_job, visited_urls>>

\* fetch_page returned a page and it was stored: `stored` is yielded.
FetchStored(s) ==
  /\ Resumes(s, "fetch")
  /\ Step(s, [Frame(s) EXCEPT !.pc = "links", !.page_data = "page",
                              !.calls = <<>>, !.taken = <<>>,
                              !.total_pages = @ + 1, !.total_chunks = @ + 1,
                              !.idx = 1, !.discovered_links = <<>>,
                              !.events = Append(@, StoredEvent(Frame(s).url))])
  /\ UNCHANGED <<env, settings, active_jobs, steering_queues, queue_items, next_job, visited_urls>>

\* After `stored`: the page's links are evaluated up to the next yield.
EvalLinks(s) ==
  /\ Resumes(s, "links")
  /\ \E f \in ProcessLinks(Frame(s), visited_urls) : Step(s, f)
  /\ UNCHANGED <<env, settings, active_jobs, steering_queues, queue_items, next_job, visited_urls>>

\* Decide admitting the link the decision names.
DecideNamedLink(f, decision) ==
  IF decision.approve THEN Admit(f, decision.link) ELSE f

\* if decision.get("approve", False): the pending link is admitted
Decide(f, decision) ==
  IF decision.approve THEN Admit(f, PageLinks(f.url)[f.idx]) ELSE f

\* (history) The decision taken from the channel is noted with the link that
\* was pending and the length of the discovered links before it.
Noted(f, g, decision) ==
  IF env.log
  THEN [g EXCEPT !.taken = Append(@, [approve |-> decision.approve,
                                      link |-> decision.link,
                                      pending |-> PageLinks(f.url)[f.idx],
                                      before |-> Len(f.discovered_links)])]
  ELSE g

\* steering_queue.get() returned a decision within the timeout.
SteerDecided(s) ==
  /\ Resumes(s, "steer")
  /\ LET q == Frame(s).steering_queue IN
       /\ queue_items[q] # <<>>
       /\ queue_items' = [queue_items EXCEPT ![q] = Tail(@)]
       /\ \E f \in ProcessLinks([Noted(Frame(s),
                                         Decide(Frame(s), Head(queue_items[q])),
                                         Head(queue_items[q]))
                                   EXCEPT !.idx = @ + 1], visited_urls) :
            Step(s, f)
  /\ UNCHANGED <<env, settings, active_jobs, steering_queues, next_job, visited_urls>>

\* SteerTimeout with the timeout taken as an approval.
SteerTimeoutAdmits(s) ==
  /\ Resumes(s, "steer")
  /\ queue_items[Frame(s).steering_queue] = <<>>
  /\ \E f \in ProcessLinks([Admit(Frame(s), PageLinks(Frame(s).url)[Frame(s).idx])
                              EXCEPT !.idx = @ + 1, !.timeouts = @ + 1],
                           visited_urls) :
       Step(s, f)
  /\ UNCHANGED <<env, settings, active_jobs, steering_queues, queue_items, next_job, visited_urls>>

\* asyncio.TimeoutError: the queue stayed empty for the whole wait.
SteerTimeout(s) ==
  /\ Resumes(s, "steer")
  /\ queue_items[Frame(s).steering_queue] = <<>>
  /\ \E f \in ProcessLinks([Frame(s) EXCEPT !.idx = @ + 1, !.timeouts = @ + 1],
                           visited_urls) :
       Step(s, f)
  /\ UNCHANGED <<env, settings, active_jobs, steering_queues, queue_items, next_job, visited_urls>>

\* asyncio.sleep(self.delay) is over: back to the head of the loop.
Wake(s) ==
  /\ Resumes(s, "sleep")
  /\ LET r == LoopHead(Frame(s), visited_urls)
     IN /\ Step(s, r.f)
        /\ visited_urls' = r.vis
  /\ UNCHANGED <<env, settings, active_jobs, steering_queues, queue_items, next_job>>

\* StreamEnd with an except clause that yields its `error` event whenever
\* the status assignment fails.
StreamEndYieldsError(s) ==
  /\ Resumes(s, "finishing")
  /\ LET j == Frame(s).job IN
       IF j \in DOMAIN active_jobs
       THEN /\ active_jobs' = [active_jobs EXCEPT ![j].status = "completed"]
            /\ Step(s, [Frame(s) EXCEPT !.pc = "done"])
       ELSE /\ Step(s, [Frame(s) EXCEPT !.pc = "done",
                                        !.events = Append(@, ErrorEvent)])
            /\ UNCHANGED active_jobs
  /\ UNCHANGED <<env, settings, steering_queues, queue_items, next_job, visited_urls>>

\* The agent's generator is exhausted after its terminal event:
\* _active_jobs[job_id]["status"] = "completed".  With the job deleted this
\* raises KeyError, and so does the assignment in the except clause, before
\* its yield: the exception leaves event_stream.
StreamEnd(s) ==
  /\ Resumes(s, "finishing")
  /\ LET j == Frame(s).job IN
       IF j \in DOMAIN active_jobs
       THEN /\ active_jobs' = [active_jobs EXCEPT ![j].status = "completed"]
            /\ Step(s, [Frame(s) EXCEPT !.pc = "done"])
       ELSE IF j \in DOMAIN active_jobs
            THEN /\ active_jobs' = [active_jobs EXCEPT ![j].status = "failed"]
                 /\ Step(s, [Frame(s) EXCEPT !.pc = "done",
                                             !.events = Append(@, ErrorEvent)])
            ELSE /\ Step(s, [Frame(s) EXCEPT !.pc = "raised"])
                 /\ UNCHANGED active_jobs
  /\ UNCHANGED <<env, settings, steering_queues, queue_items, next_job, visited_urls>>

\* SteerDecision: approve and link.
Decisions == [approve : BOOLEAN, link : {UrlDocs, UrlOther}]

\* A link of job j is pending: a generator of the job waits for a decision.
Pending(j) == \E s \in StreamIds : Frame(s).job = j /\ Resumes(s, "steer")

\* The queued item: the decision, and (history) whether a link was pending
\* when it was submitted.
Queued(j, decision) ==
  [approve |-> decision.approve, link |-> decision.link, asked |-> Pending(j)]

\* POST /jobs/{job_id}/steer
SteerCrawl(j, decision) ==
  /\ j \in DOMAIN active_jobs
  /\ j \in DOMAIN steering_queues
  /\ Len(queue_items[steering_queues[j]]) < MaxQueued
  /\ queue_items' = [queue_items EXCEPT ![steering_queues[j]] = Append(@, Queued(j, decision))]
  /\ UNCHANGED <<env, settings, active_jobs, steering_queues, next_job, visited_urls, streams>>

\* DeleteJob that leaves the steering channel in the registry.
DeleteJobKeepsChannel(j) ==
  /\ j \in DOMAIN active_jobs
  /\ active_jobs' = Without(active_jobs, j)
  /\ UNCHANGED <<env, settings, steering_queues, queue_items, next_job, visited_urls, streams>>

\* DELETE /jobs/{job_id}
DeleteJob(j) ==
  /\ j \in DOMAIN active_jobs
  /\ active_jobs' = Without(active_jobs, j)
  /\ steering_queues' = IF j \in DOMAIN steering_queues
                        THEN Without(steering_queues, j) ELSE steering_queues
  /\ UNCHANGED <<env, settings, queue_items, next_job, visited_urls, streams>>

\* The client of the StreamingResponse goes away: the response task is
\* cancelled and the suspended generator is never resumed.
Disconnect(s) ==
  /\ Frame(s).pc \in Live
  /\ Frame(s).connected
  /\ Step(s, [Frame(s) EXCEPT !.connected = FALSE])
  /\ UNCHANGED <<env, settings, active_jobs, steering_queues, queue_items, next_job, visited_urls>>

\* A run of the generator of slot s.
GeneratorStep(s) ==
  \/ Begin(s)
  \/ FetchNone(s)
  \/ StoreRaises(s)
  \/ FetchStored(s)
  \/ EvalLinks(s)
  \/ SteerDecided(s)
  \/ SteerTimeout(s)
  \/ Wake(s)

StartUrls == {UrlStart}

\* One job and one generator at a time, in any environment.
Next ==
  \/ \E u \in StartUrls : next_job <= MaxSolo /\ StartCrawl(CrawlRequest(u, None, None))
  \/ \E j \in JobIds, s \in SoloStreams : CrawlStream(j, s)
  \/ \E s \in SoloStreams : Begin(s)
  \/ \E s \in SoloStreams : FetchNone(s)
  \/ \E s \in SoloStreams : StoreRaises(s)
  \/ \E s \in SoloStreams : FetchStored(s)
  \/ \E s \in SoloStreams : EvalLinks(s)
  \/ \E s \in SoloStreams : SteerDecided(s)
  \/ \E s \in SoloStreams : SteerTimeout(s)
  \/ \E s \in SoloStreams : Wake(s)
  \/ \E s \in SoloStreams : StreamEnd(s)
  \/ \E j \in JobIds, d \in Decisions : SteerCrawl(j, d)
  \/ \E j \in JobIds : DeleteJob(j)
  \/ \E s \in SoloStreams : Disconnect(s)

Spec == Init /\ [][Next]_vars

\* The start URL of job j in NextDuo.
DuoStartUrl(j) == IF j = 1 THEN UrlStart ELSE UrlApi

\* Several jobs at a time, each streamed once, in a quiet environment: no
\* steering decision is submitted, no job is deleted and every client stays.
NextDuo ==
  \/ StartCrawl(CrawlRequest(DuoStartUrl(next_job), None, None))
  \/ \E j \in JobIds : Frame(j).pc = "none" /\ CrawlStream(j, j)
  \/ \E s \in StreamIds : Begin(s)
  \/ \E s \in StreamIds : FetchNone(s)
  \/ \E s \in StreamIds : StoreRaises(s)
  \/ \E s \in StreamIds : FetchStored(s)
  \/ \E s \in StreamIds : EvalLinks(s)
  \/ \E s \in StreamIds : SteerTimeout(s)
  \/ \E s \in StreamIds : Wake(s)
  \/ \E s \in StreamIds : StreamEnd(s)

SpecDuo == Init /\ [][NextDuo]_vars

\* One job, streamed once by a client that keeps reading; decisions (all
\* naming /docs, which is never the pending link) may be submitted and the
\* job may be deleted at any time.
NextLive ==
  \/ \E u \in StartUrls : next_job <= MaxSolo /\ StartCrawl(CrawlRequest(u, None, None))
  \/ \E j \in JobIds, s \in SoloStreams : Frame(s).pc = "none" /\ CrawlStream(j, s)
  \/ \E s \in SoloStreams : Begin(s)
  \/ \E s \in SoloStreams : FetchNone(s)
  \/ \E s \in SoloStreams : StoreRaises(s)
  \/ \E s \in SoloStreams : FetchStored(s)
  \/ \E s \in SoloStreams : EvalLinks(s)
  \/ \E s \in SoloStreams : SteerDecided(s)
  \/ \E s \in SoloStreams : SteerTimeout(s)
  \/ \E s \in SoloStreams : Wake(s)
  \/ \E s \in SoloStreams : StreamEnd(s)
  \/ \E j \in JobIds, d \in Decisions : d.link = UrlDocs /\ SteerCrawl(j, d)
  \/ \E j \in JobIds : DeleteJob(j)

\* The response keeps pulling events; every fetch, store and oracle call
\* returns, every sleep ends, and a steering wait ends by a decision or by
\* the 60 s timeout of asyncio.wait_for.
SpecLive ==
  /\ Init
  /\ [][NextLive]_vars
  /\ \A s \in SoloStreams : WF_vars(GeneratorStep(s) \/ StreamEnd(s))

\* The settings the logged runs are made with: the one of Init and the
\* documented scenario.
LogEnvs ==
  {Env("graph", max_depth, max_pages, TRUE),
   Env("scenario", ScenarioMaxDepth, ScenarioMaxPages, TRUE)}

InitLog ==
  /\ env \in LogEnvs
  /\ Started

\* One job, streamed once by a client that keeps reading, with the router's
\* calls logged.
SpecLog == InitLog /\ [][NextLive]_vars

\* The settings the jobs with overrides run under.
InitAsk ==
  /\ env \in {Env("graph", max_depth, max_pages, FALSE),
              Env("graph", DeepMaxDepth, max_pages, FALSE)}
  /\ Started

\* The requests a job is created with: without overrides, or with both.
Requests ==
  {CrawlRequest(u, None, None) : u \in StartUrls}
    \cup {CrawlRequest(u, AskedMaxDepth, AskedMaxPages) : u \in StartUrls}

\* One job, created with or without overrides and streamed once by a client
\* that keeps reading.
NextAsk ==
  \/ \E r \in Requests : next_job <= MaxSolo /\ StartCrawl(r)
  \/ \E j \in JobIds, s \in SoloStreams : Frame(s).pc = "none" /\ CrawlStream(j, s)
  \/ \E s \in SoloStreams : Begin(s)
  \/ \E s \in SoloStreams : FetchNone(s)
  \/ \E s \in SoloStreams : StoreRaises(s)
  \/ \E s \in SoloStreams : FetchStored(s)
  \/ \E s \in SoloStreams : EvalLinks(s)
  \/ \E s \in SoloStreams : SteerDecided(s)
  \/ \E s \in SoloStreams : SteerTimeout(s)
  \/ \E s \in SoloStreams : Wake(s)
  \/ \E s \in SoloStreams : StreamEnd(s)
  \/ \E j \in JobIds, d \in Decisions : d.link = UrlDocs /\ SteerCrawl(j, d)
  \/ \E j \in JobIds : DeleteJob(j)

SpecAsk == InitAsk /\ [][NextAsk]_vars

\* The values a budget is given in a configuration.
ConfigValues == {DepthMin - 1, DepthMin, DepthMax, DepthMax + 1, PagesMax, PagesMax + 1}

\* CrawlerConfig(max_depth=depth, max_pages=pages): pydantic validates the
\* fields when the object is constructed (error: a ValidationError is
\* raised and there is no object).
CrawlerConfig(depth, pages) ==
  [error |-> ~(/\ depth >= DepthMin /\ depth <= DepthMax
               /\ pages >= PagesMin /\ pages <= PagesMax),
   max_depth |-> depth, max_pages |-> pages]

\* The crawler sections Settings.from_yaml can load.
Loadable ==
  {c \in {CrawlerConfig(depth, pages) : depth, pages \in ConfigValues} : ~c.error}

\* The updates of a PUT /api/config request for section "crawler".
ConfigUpdates ==
  UNION {[keys -> ConfigValues] : keys \in SUBSET {"max_depth", "max_pages"} \ {{}}}

\* PUT /api/config with section "crawler": setattr(section, key, value) for
\* every key of the updates (the model does not validate assignments), then
\* the settings are saved.
UpdateConfig(updates) ==
  /\ settings' = [key \in DOMAIN settings |->
                    IF key \in DOMAIN updates THEN updates[key] ELSE settings[key]]
  /\ UNCHANGED <<env, active_jobs, steering_queues, queue_items, next_job,
                 visited_urls, streams>>

InitAdmin ==
  /\ env \in {Env("graph", c.max_depth, c.max_pages, FALSE) : c \in Loadable}
  /\ Started

\* The registry and the configuration: jobs are created, steered and
\* deleted and the crawler settings are updated, in any order.
NextAdmin ==
  \/ \E u \in StartUrls : StartCrawl(CrawlRequest(u, None, None))
  \/ \E j \in JobIds, d \in Decisions : d.link = UrlDocs /\ SteerCrawl(j, d)
  \/ \E j \in JobIds : DeleteJob(j)
  \/ \E updates \in ConfigUpdates : UpdateConfig(updates)

SpecAdmin == InitAdmin /\ [][NextAdmin]_vars

InitSmall ==
  /\ env = Env("small", max_depth, max_pages, TRUE)
  /\ Started

\* One job on the small site, streamed once, with the router's calls logged.
SpecSmall == InitSmall /\ [][NextLive]_vars

InitTwin ==
  /\ env = Env("small", max_depth, max_pages, FALSE)
  /\ Started

\* One job on the small site whose stream endpoint is opened up to once per
\* slot, by clients that keep reading: the second request may come while
\* the first response is streaming or after it ended.
NextTwin ==
  \/ \E u \in StartUrls : next_job <= MaxSolo /\ StartCrawl(CrawlRequest(u, None, None))
  \/ \E j \in JobIds, s \in StreamIds : Frame(s).pc = "none" /\ CrawlStream(j, s)
  \/ \E s \in StreamIds : Begin(s)
  \/ \E s \in StreamIds : FetchNone(s)
  \/ \E s \in StreamIds : StoreRaises(s)
  \/ \E s \in StreamIds : FetchStored(s)
  \/ \E s \in StreamIds : EvalLinks(s)
  \/ \E s \in StreamIds : SteerDecided(s)
  \/ \E s \in StreamIds : SteerTimeout(s)
  \/ \E s \in StreamIds : Wake(s)
  \/ \E s \in StreamIds : StreamEnd(s)
  \/ \E j \in JobIds, d \in Decisions : d.link = UrlDocs /\ SteerCrawl(j, d)

SpecTwin == InitTwin /\ [][NextTwin]_vars

\* ---------------------------------------------------------------- claims
IsTerminal(e) == e.type \in {"completed", "error"}

TerminalAt(evs) == {i \in 1 .. Len(evs) : IsTerminal(evs[i])}

\* The events of type t in evs.
CountType(evs, t) == Cardinality({i \in 1 .. Len(evs) : evs[i].type = t})

\* The events of type t for URL u in evs.
CountUrl(evs, t, u) ==
  Cardinality({i \in 1 .. Len(evs) : evs[i].type = t /\ evs[i].url = u})

\* The generator ran to its end (it was not abandoned by its client).
RanToEnd(f) == f.pc \in {"finishing", "done", "raised"}

\* C1: a stream holds at most one terminal event (`completed` or `error`),
\* nothing follows it, and a stream that ran to its end (loop exhausted,
\* budget reached, store failure, job deleted meanwhile) ends with one.
C1_TerminalEvent ==
  \A s \in StreamIds :
    LET f == Frame(s)
        evs == f.events
    IN /\ Cardinality(TerminalAt(evs)) <= 1
       /\ \A i \in TerminalAt(evs) : i = Len(evs)
       /\ RanToEnd(f) => evs # <<>> /\ IsTerminal(evs[Len(evs)])
       /\ TerminalAt(evs) # {} => RanToEnd(f)

\* A stream whose job was deleted while it ran ended with `completed` after
\* storing a page.
C1_Witness ==
  \E s \in StreamIds :
    /\ Frame(s).pc = "raised"
    /\ CountType(Frame(s).events, "stored") >= 1
    /\ Frame(s).events[Len(Frame(s).events)].type = "completed"

\* C2: the pages-crawled counter and the number of `stored` events of a
\* stream never exceed max_pages.
C2_PageBudget ==
  \A s \in StreamIds :
    /\ Frame(s).total_pages <= max_pages
    /\ CountType(Frame(s).events, "stored") <= max_pages

\* The budget stopped a traversal whose frontier still held an unvisited
\* URL within the depth limit.
C2_Witness ==
  \E s \in StreamIds :
    /\ Frame(s).pc = "finishing"
    /\ Frame(s).total_pages = max_pages
    /\ CountType(Frame(s).events, "stored") = max_pages
    /\ \E i \in 1 .. Len(Frame(s).queue) :
         /\ Frame(s).queue[i].url \notin visited_urls
         /\ Frame(s).queue[i].depth <= max_depth

\* C3: within one stream of a job, no URL has more than one `crawling`
\* event, also while another job runs.
C3_VisitOnce ==
  \A s \in StreamIds : \A u \in Urls :
    CountUrl(Frame(s).events, "crawling", u) <= 1

\* C4 as claimed: no entry with depth > max_depth is held by the frontier or
\* popped from it.
C4_NeverHoldsTooDeep ==
  \A s \in StreamIds :
    /\ \A i \in 1 .. Len(Frame(s).queue) : Frame(s).queue[i].depth <= max_depth
    /\ \A e \in Frame(s).popped : e.depth <= max_depth

Crawling == {"fetch", "links", "steer", "sleep"}

\* C4 as amended: the frontier may hold and pop entries of depth
\* max_depth + 1 (never deeper), and a popped entry with depth > max_depth is
\* dropped: the URL being crawled, and every URL with a `crawling` event, was
\* popped at a depth <= max_depth.
C4_NeverCrawlsTooDeep ==
  \A s \in StreamIds :
    LET f == Frame(s) IN
    /\ \A i \in 1 .. Len(f.queue) : f.queue[i].depth <= max_depth + 1
    /\ \A e \in f.popped : e.depth <= max_depth + 1
    /\ f.pc \in Crawling => f.depth <= max_depth /\ Entry(f.url, f.depth) \in f.popped
    /\ \A i \in 1 .. Len(f.events) :
         f.events[i].type = "crawling" =>
           \E e \in f.popped : e.url = f.events[i].url /\ e.depth <= max_depth

\* An entry deeper than max_depth was popped and its URL was not crawled.
C4_Witness ==
  \E s \in StreamIds : \E e \in Frame(s).popped :
    /\ e.depth > max_depth
    /\ CountUrl(Frame(s).events, "crawling", e.url) = 0

Rank(status) ==
  CASE status = "pending" -> 0
    [] status = "running" -> 1
    [] OTHER -> 2

\* C5: the status of a job never moves back along
\* pending -> running -> {completed, failed}, and never leaves completed or
\* failed.
C5_StatusMonotonic ==
  [][\A j \in DOMAIN active_jobs \cap DOMAIN active_jobs' :
       /\ Rank(active_jobs[j].status) <= Rank(active_jobs'[j].status)
       /\ active_jobs[j].status \in {"completed", "failed"}
            => active_jobs'[j].status = active_jobs[j].status]_vars

\* C6: a stream that ended after a store failure holds exactly one `error`
\* event and has left its job failed.
C6_StoreFailureFailsJob ==
  \A s \in StreamIds :
    LET f == Frame(s) IN
    (f.pc = "done" /\ CountType(f.events, "error") >= 1)
      => /\ CountType(f.events, "error") = 1
         /\ f.job \in DOMAIN active_jobs => active_jobs[f.job].status = "failed"

\* The links of `links` at the indices in K, in page order.
RECURSIVE Pick(_, _, _)
Pick(links, K, i) ==
  IF i > Len(links) THEN <<>>
  ELSE (IF i \in K THEN <<links[i]>> ELSE <<>>) \o Pick(links, K, i + 1)

Range(seq) == {seq[i] : i \in 1 .. Len(seq)}

\* C7: when a steering wait ends by the timeout (no decision was in the
\* job's channel), the pending link is not enqueued and not added to the
\* discovered links: whatever the step appends to the frontier and to the
\* discovered links comes from later links of the page, the traversal has
\* moved past the pending link and no `error` is emitted; a `discovered`
\* event lists exactly the discovered links.
C7_TimeoutRejects ==
  [][\A s \in StreamIds :
       LET f == streams[s]
           g == streams'[s]
           links == PageLinks(f.url)
           newq == SubSeq(g.queue, Len(f.queue) + 1, Len(g.queue))
           newd == SubSeq(g.discovered_links, Len(f.discovered_links) + 1,
                          Len(g.discovered_links))
           newe == SubSeq(g.events, Len(f.events) + 1, Len(g.events))
       IN /\ g.timeouts = f.timeouts + 1 =>
               /\ f.pc = "steer" /\ queue_items[f.steering_queue] = <<>>
               /\ SubSeq(g.queue, 1, Len(f.queue)) = f.queue
               /\ \E K \in SUBSET ((f.idx + 1) .. Len(links)) :
                    /\ newd = Pick(links, K, 1)
                    /\ newq = [i \in 1 .. Len(newd) |-> Entry(newd[i], f.depth + 1)]
               /\ (\A k \in 1 .. Len(links) : k # f.idx => links[k] # links[f.idx])
                    => /\ links[f.idx] \notin Range(g.discovered_links)
                       /\ \A i \in 1 .. Len(newq) : newq[i].url # links[f.idx]
               /\ g.idx > f.idx /\ g.pc \in {"steer", "sleep"}
               /\ \A i \in 1 .. Len(newe) : newe[i].type # "error"
          /\ (newe # <<>> /\ newe[Len(newe)].type = "discovered")
               => newe[Len(newe)].links = g.discovered_links]_vars

\* A steering wait timed out and the page's `discovered` event, emitted
\* afterwards, does not list the link that was pending.
C7_Witness ==
  \E s \in StreamIds :
    LET f == Frame(s) IN
    /\ f.timeouts >= 1
    /\ f.pc = "sleep"
    /\ CountUrl(f.events, "steering_needed", UrlOther) = 1
    /\ f.events[Len(f.events)].type = "discovered"
    /\ UrlOther \notin Range(f.events[Len(f.events)].links)

\* C8: a decision taken from the channel by a waiting generator was
\* submitted while a link was pending (a decision submitted while none was
\* pending has been discarded).
C8_StaleDecisionsDiscarded ==
  [][\A s \in StreamIds :
       LET q == streams[s].steering_queue IN
       (/\ streams[s].pc = "steer"
        /\ streams'[s] # streams[s]
        /\ queue_items[q] # <<>>
        /\ queue_items'[q] = Tail(queue_items[q]))
         => Head(queue_items[q]).asked]_vars

\* The URLs a generator has marked visited (one `crawling` event each).
CrawledUrls(f) ==
  {f.events[i].url : i \in {k \in 1 .. Len(f.events) : f.events[k].type = "crawling"}}

\* C9: the visited set a running traversal reads holds exactly the URLs this
\* traversal has marked: no other job's traversal writes it.
C9_VisitedSetIsOwn ==
  \A s \in StreamIds :
    (Frame(s).pc \in Crawling /\ Frame(s).connected)
      => visited_urls = CrawledUrls(Frame(s))

\* C10: a traversal whose client has disconnected goes on: while it is in
\* its loop, its generator can take its next step.
C10_DisconnectedKeepsCrawling ==
  \A s \in StreamIds :
    (Frame(s).pc \in Crawling /\ ~Frame(s).connected)
      => ENABLED GeneratorStep(s)

\* `completed` is emitted exactly when the loop condition fails: a stream
\* with `completed` has an empty frontier or has used its page budget, and a
\* traversal sent into another iteration (a new `crawling`) had budget left.
CompletedWhenLoopEnds ==
  \A s \in StreamIds :
    LET f == Frame(s) IN
    /\ CountType(f.events, "completed") >= 1
         => /\ f.queue = <<>> \/ f.total_pages = max_pages
            /\ f.events[Len(f.events)].total_pages = f.total_pages
    /\ f.pc = "fetch" => f.total_pages < max_pages

\* C11: when every fetch, store and oracle call returns, every steering
\* wait ends by a decision or by the timeout and the client keeps reading,
\* a stream that was opened eventually holds a terminal event, whatever the
\* link graph (the modelled one has the cycle start <-> docs); `completed`
\* is emitted exactly when the frontier is empty or the page budget is used.
C11_Terminates ==
  /\ []CompletedWhenLoopEnds
  /\ \A s \in SoloStreams :
       (Frame(s).pc = "init") ~> (TerminalAt(Frame(s).events) # {})

\* A traversal went round the cycle (start and docs both crawled, docs
\* linking back to start), waited for a decision, and completed with budget
\* left because its frontier was empty.
C11_Witness ==
  \E s \in SoloStreams :
    LET f == Frame(s) IN
    /\ f.pc = "done"
    /\ CountUrl(f.events, "crawling", UrlStart) = 1
    /\ CountUrl(f.events, "stored", UrlDocs) = 1
    /\ CountType(f.events, "steering_needed") >= 1
    /\ CountType(f.events, "completed") = 1
    /\ f.queue = <<>> /\ f.total_pages < max_pages

\* The occurrences of x in seq.
Count(seq, x) == Cardinality({i \in 1 .. Len(seq) : seq[i] = x})

\* The events of the page being processed: those after its `stored` event.
PageEvents(f) ==
  LET at == {i \in 1 .. Len(f.events) : f.events[i].type = "stored"}
      last == CHOOSE i \in at : \A k \in at : k <= i
  IN IF at = {} THEN <<>> ELSE SubSeq(f.events, last + 1, Len(f.events))

\* The logged calls about link whose verdict is positive with confidence > 0.8.
AutoAdmits(f, link) ==
  {k \in 1 .. Len(f.calls) :
     /\ f.calls[k].link = link
     /\ f.calls[k].verdict.should_crawl
     /\ f.calls[k].verdict.confidence > 80}

\* The logged calls about link.
CallsAbout(f, link) == {k \in 1 .. Len(f.calls) : f.calls[k].link = link}

\* The generator is in or after the link loop of a page.
InLinkLoop(f) == f.pc \in {"steer", "sleep"}

\* The entries appended to the frontier for the page's discovered links.
Enqueued(f) ==
  SubSeq(f.queue, Len(f.queue) - Len(f.discovered_links) + 1, Len(f.queue))

\* C12: a link whose verdict is positive with confidence > 0.8 is appended
\* to the frontier at depth + 1 and to the discovered links, which the
\* page's `discovered` event lists, and no `steering_needed` event is
\* emitted for that evaluation.
C12_AutoAdmit ==
  \A s \in StreamIds :
    LET f == Frame(s)
        page == PageEvents(f)
    IN InLinkLoop(f) =>
         /\ Len(f.queue) >= Len(f.discovered_links)
         /\ Enqueued(f) = [i \in 1 .. Len(f.discovered_links) |->
                             Entry(f.discovered_links[i], f.depth + 1)]
         /\ \A link \in Urls :
              LET n == Cardinality(AutoAdmits(f, link)) IN
              /\ Count(f.discovered_links, link) >= n
              /\ CountUrl(page, "steering_needed", link)
                   <= Cardinality(CallsAbout(f, link)) - n
              /\ (f.pc = "sleep" /\ n >= 1) =>
                   /\ page[Len(page)].type = "discovered"
                   /\ Count(page[Len(page)].links, link) >= n

\* The oracle was positive about /docs with confidence 0.95 and about the
\* cross-domain page with 0.65: /docs is enqueued at depth 1 and listed in
\* `discovered`, and the only `steering_needed` is for the other link.
C12_Witness ==
  \E s \in StreamIds :
    LET f == Frame(s)
        page == PageEvents(f)
    IN /\ f.pc = "sleep" /\ f.url = UrlStart
       /\ \E k \in AutoAdmits(f, UrlDocs) : f.calls[k].reply.confidence = 95
       /\ \E k \in CallsAbout(f, UrlOther) :
            f.calls[k].verdict = Verdict(TRUE, 65)
       /\ CountUrl(page, "steering_needed", UrlDocs) = 0
       /\ CountType(page, "steering_needed") = 1
       /\ Entry(UrlDocs, 1) \in Range(f.queue)
       /\ UrlDocs \in Range(page[Len(page)].links)

\* The domain-affinity prior of a link: 0.9 on the crawl's base domain, 0.3
\* elsewhere.
Prior(f, link) ==
  IF Netloc(link) = extract_domain(f.start_url) THEN 90 ELSE 30

\* C13: when the oracle fails, by a malformed response or by raising, the
\* router's verdict is (prior > 0.5, prior): (true, 0.9) for a same-domain
\* link and (false, 0.3) for a cross-domain link.
C13_OracleFailureFallsBack ==
  \A s \in StreamIds :
    LET f == Frame(s) IN
    \A k \in 1 .. Len(f.calls) :
      f.calls[k].reply.kind \in {"malformed", "raise"}
        => f.calls[k].verdict = Verdict(Prior(f, f.calls[k].link) > 50,
                                        Prior(f, f.calls[k].link))

\* The first entry of queue the loop would crawl: neither visited nor deeper
\* than the depth limit (0 when there is none).
RECURSIVE NextCrawlable(_, _)
NextCrawlable(queue, vis) ==
  IF queue = <<>> THEN 0
  ELSE IF Head(queue).url \notin vis /\ Head(queue).depth <= env.max_depth THEN 1
  ELSE LET n == NextCrawlable(Tail(queue), vis) IN IF n = 0 THEN 0 ELSE n + 1

\* C14: when fetch_page returns none for the URL being crawled, the
\* counters are unchanged, the step emits no `stored` and no `error` event,
\* and the traversal goes on: its one new event is `crawling` for the next
\* frontier entry that is neither visited nor too deep, or `completed` when
\* there is none.
C14_FetchFailureSkipsUrl ==
  [][\A s \in StreamIds :
       LET f == streams[s]
           g == streams'[s]
           newe == SubSeq(g.events, Len(f.events) + 1, Len(g.events))
           n == NextCrawlable(f.queue, visited_urls)
       IN (f.pc = "fetch" /\ g # f /\ g.connected /\ g.page_data = "none")
            => /\ g.total_pages = f.total_pages
               /\ g.total_chunks = f.total_chunks
               /\ CountUrl(g.events, "stored", f.url) = CountUrl(f.events, "stored", f.url)
               /\ Len(newe) = 1
               /\ IF n # 0 /\ f.total_pages < env.max_pages
                  THEN /\ newe[1] = CrawlingEvent(f.queue[n].url)
                       /\ g.pc = "fetch" /\ g.url = f.queue[n].url
                       /\ g.queue = SubSeq(f.queue, n + 1, Len(f.queue))
                  ELSE /\ newe[1] = CompletedEvent(f.total_pages, f.total_chunks)
                       /\ g.pc = "finishing"]_vars

\* A fetch failed for a URL that was never stored, and the traversal went on
\* to store another page.
C14_Witness ==
  \E s \in StreamIds :
    LET f == Frame(s) IN
    /\ f.pc = "links" /\ f.url = UrlOther
    /\ CountUrl(f.events, "crawling", UrlDocs) = 1
    /\ CountUrl(f.events, "stored", UrlDocs) = 0
    /\ CountUrl(f.events, "stored", UrlOther) = 1
    /\ CountType(f.events, "error") = 0
    /\ f.total_pages = 2

\* Between handlers a job has an entry exactly when it has a steering
\* channel, and every job that has an entry can be deleted.
JobAndChannelTogether ==
  /\ DOMAIN active_jobs = DOMAIN steering_queues
  /\ \A j \in DOMAIN active_jobs : ENABLED DeleteJob(j)

\* C15: deleting a job is possible in any status and removes its entry and
\* its steering channel in one step, so a steering submission never finds
\* one without the other; a channel receives a decision only while its job
\* has an entry, so a submission after the deletion enqueues nothing.
C15_DeleteIsAtomic ==
  /\ []JobAndChannelTogether
  /\ [][\A j \in JobIds :
          /\ Len(queue_items'[j]) > Len(queue_items[j])
               => j \in DOMAIN active_jobs /\ j \in DOMAIN steering_queues
          /\ (j \in DOMAIN active_jobs /\ j \notin DOMAIN active_jobs')
               => j \notin DOMAIN steering_queues'
          /\ (j \notin DOMAIN active_jobs /\ next_job > j)
               => /\ j \notin DOMAIN active_jobs'
                  /\ Len(queue_items'[j]) <= Len(queue_items[j])]_vars

\* A job was deleted while its traversal waited for a decision, with a
\* decision in its channel: entry and channel are both gone.
C15_Witness ==
  \E s \in StreamIds :
    LET j == Frame(s).job IN
    /\ Frame(s).pc = "steer"
    /\ j \notin DOMAIN active_jobs /\ j \notin DOMAIN steering_queues
    /\ queue_items[j] # <<>>

\* C16: for a link on the crawl's base domain that the oracle answered, the
\* router's confidence is the larger of the oracle's confidence and 0.9, so
\* at least 0.9, and the recommendation is the oracle's; a cross-domain
\* link keeps the oracle's confidence.
C16_SameDomainFloor ==
  \A s \in StreamIds :
    LET f == Frame(s) IN
    \A k \in 1 .. Len(f.calls) :
      LET c == f.calls[k] IN
      c.reply.kind = "ok" =>
        /\ c.verdict.should_crawl = c.reply.should_crawl
        /\ IF Netloc(c.link) = extract_domain(f.start_url)
           THEN /\ c.verdict.confidence >= 90
                /\ c.verdict.confidence >= c.reply.confidence
                /\ c.verdict.confidence \in {90, c.reply.confidence}
           ELSE c.verdict.confidence = c.reply.confidence

\* The oracle was positive about /docs with confidence 0.2: the router gave
\* 0.9 and the link was admitted without a steering request.
C16_Witness ==
  \E s \in StreamIds :
    LET f == Frame(s) IN
    /\ f.pc = "sleep" /\ f.url = UrlStart
    /\ \E k \in 1 .. Len(f.calls) :
         /\ f.calls[k].link = UrlDocs
         /\ f.calls[k].reply = [kind |-> "ok", should_crawl |-> TRUE, confidence |-> 20]
         /\ f.calls[k].verdict = Verdict(TRUE, 90)
    /\ UrlDocs \in Range(f.discovered_links)
    /\ CountType(PageEvents(f), "steering_needed") = 0

\* C17: in a traversal without a steering queue, a link with a positive
\* verdict of confidence in (0.5, 0.8] is dropped: no `steering_needed` is
\* emitted and the traversal never waits, and the discovered links (hence
\* the entries appended to the frontier and the `discovered` event) are
\* exactly the links whose verdict was positive with confidence > 0.8.
C17_NoChannelDropsMedium ==
  \A s \in StreamIds :
    LET f == Frame(s)
        page == PageEvents(f)
    IN (f.steering_queue = None /\ f.pc \in Crawling) =>
         /\ f.pc # "steer"
         /\ CountType(f.events, "steering_needed") = 0
         /\ f.pc = "sleep" =>
              /\ \A link \in Urls :
                   Count(f.discovered_links, link) = Cardinality(AutoAdmits(f, link))
              /\ Len(f.queue) >= Len(f.discovered_links)
              /\ Enqueued(f) = [i \in 1 .. Len(f.discovered_links) |->
                                  Entry(f.discovered_links[i], f.depth + 1)]
              /\ \A i \in 1 .. Len(page) :
                   page[i].type = "discovered" => page[i].links = f.discovered_links

\* A traversal without a steering queue got a positive verdict of confidence
\* 0.65 for the cross-domain link: the link is neither in the frontier nor
\* in the page's `discovered` event, which lists /docs.
C17_Witness ==
  \E s \in StreamIds :
    LET f == Frame(s)
        page == PageEvents(f)
    IN /\ f.steering_queue = None
       /\ f.pc = "sleep" /\ f.url = UrlStart
       /\ \E k \in CallsAbout(f, UrlOther) : f.calls[k].verdict = Verdict(TRUE, 65)
       /\ \A i \in 1 .. Len(f.queue) : f.queue[i].url # UrlOther
       /\ page # <<>> /\ page[Len(page)].type = "discovered"
       /\ UrlOther \notin Range(page[Len(page)].links)
       /\ UrlDocs \in Range(page[Len(page)].links)

\* C18: a job created with overrides max_pages = P and max_depth = D never
\* stores more than P pages and never crawls a URL at a depth greater than D.
C18_OverridesEnforced ==
  \A s \in StreamIds :
    LET f == Frame(s) IN
    f.job \in DOMAIN active_jobs =>
      LET request == active_jobs[f.job].request IN
      /\ request.max_pages # None =>
           /\ f.total_pages <= request.max_pages
           /\ CountType(f.events, "stored") <= request.max_pages
      /\ (request.max_depth # None /\ f.pc \in Crawling) =>
           f.depth <= request.max_depth

\* The documented run: start page, /docs discovered, /docs, completed.
ScenarioEvents ==
  <<CrawlingEvent(UrlStart), StoredEvent(UrlStart), DiscoveredEvent(<<UrlDocs>>),
    CrawlingEvent(UrlDocs), StoredEvent(UrlDocs), CompletedEvent(2, 2)>>

\* The traversal ended and every page it fetched was fetched and stored
\* without failure.
EndedWithoutFailure(f) ==
  /\ RanToEnd(f)
  /\ CountType(f.events, "stored") = CountType(f.events, "crawling")
  /\ CountType(f.events, "error") = 0

\* C19: on the scenario's site (the start page links to /docs and to an
\* image, the oracle is positive with confidence 0.95), with max depth 1
\* and max pages 2, a traversal whose fetches and stores succeed emits
\* exactly crawling(start), stored, discovered([/docs]), crawling(/docs),
\* stored, completed{2, 2}; on the start page the router is called for
\* /docs and for the image and answers the image without asking the oracle.
C19_Scenario ==
  \A s \in StreamIds :
    LET f == Frame(s) IN
    (env.site = "scenario" /\ env.max_depth = 1 /\ env.max_pages = 2) =>
      /\ EndedWithoutFailure(f) => f.events = ScenarioEvents
      /\ (f.pc = "sleep" /\ f.url = UrlStart) =>
           f.calls = <<[link |-> UrlDocs,
                        reply |-> [kind |-> "ok", should_crawl |-> TRUE,
                                   confidence |-> 95],
                        verdict |-> Verdict(TRUE, 95)],
                       [link |-> UrlImage, reply |-> NoReply,
                        verdict |-> Verdict(FALSE, 100)]>>

\* The scenario ran to its end.
C19_Witness ==
  \E s \in StreamIds :
    /\ env.site = "scenario" /\ env.max_depth = 1 /\ env.max_pages = 2
    /\ Frame(s).pc = "done"
    /\ Frame(s).events = ScenarioEvents

\* While a page at depth d is crawled, the frontier holds entries of depth d
\* followed by entries of depth d + 1: no entry shallower than the page
\* being crawled is still waiting.
FrontierInDepthOrder ==
  \A s \in StreamIds :
    LET f == Frame(s) IN
    f.pc \in Crawling =>
      /\ \A i \in 1 .. Len(f.queue) : f.queue[i].depth \in {f.depth, f.depth + 1}
      /\ \A i, k \in 1 .. Len(f.queue) : i < k => f.queue[i].depth <= f.queue[k].depth

IsPrefix(a, b) == Len(a) <= Len(b) /\ SubSeq(b, 1, Len(a)) = a

IsSuffix(a, b) == Len(a) <= Len(b) /\ SubSeq(b, Len(b) - Len(a) + 1, Len(b)) = a

\* C20: the frontier is a FIFO queue: the link loop only appends entries at
\* the tail, with the depth of the page being crawled plus one, the head of
\* the loop only removes entries from the head, and the depths of the
\* successive `crawling` events of a stream never decrease.
C20_BreadthFirst ==
  /\ []FrontierInDepthOrder
  /\ [][\A s \in StreamIds :
          LET f == streams[s]
              g == streams'[s]
          IN /\ (f.pc \in {"links", "steer"} /\ g.pc \in {"steer", "sleep"}) =>
                  /\ IsPrefix(f.queue, g.queue)
                  /\ \A i \in Len(f.queue) + 1 .. Len(g.queue) :
                       g.queue[i].depth = f.depth + 1
             /\ (f.pc \in {"fetch", "sleep"} /\ g.pc \in {"fetch", "finishing"}) =>
                  IsSuffix(g.queue, f.queue)
             /\ (f.pc \in {"fetch", "sleep"} /\ g.pc = "fetch"
                   /\ Len(g.events) = Len(f.events) + 1) =>
                  /\ g.events[Len(g.events)] = CrawlingEvent(g.url)
                  /\ g.depth >= f.depth]_vars

\* A depth-2 URL is crawled after the two depth-1 URLs admitted before it
\* were popped.
C20_Witness ==
  \E s \in StreamIds :
    LET f == Frame(s) IN
    /\ f.pc = "fetch" /\ f.depth = 2 /\ f.url = UrlDocs
    /\ Entry(UrlOther, 1) \in f.popped /\ Entry(UrlApi, 1) \in f.popped
    /\ CountUrl(f.events, "crawling", UrlOther) = 1
    /\ CountUrl(f.events, "crawling", UrlApi) = 1

\* The URLs all `discovered` events of a stream list, in order.
RECURSIVE DiscoveredSoFar(_)
DiscoveredSoFar(evs) ==
  IF evs = <<>> THEN <<>>
  ELSE (IF Head(evs).type = "discovered" THEN Head(evs).links ELSE <<>>)
         \o DiscoveredSoFar(Tail(evs))

\* C21: the frontier never holds two entries with the same URL, and a URL
\* is listed in the `discovered` events of a stream at most once.
C21_FrontierHasNoDuplicates ==
  \A s \in StreamIds :
    LET f == Frame(s) IN
    /\ \A i, k \in 1 .. Len(f.queue) : f.queue[i].url = f.queue[k].url => i = k
    /\ \A u \in Urls : Count(DiscoveredSoFar(f.events), u) <= 1

\* C22: a decision taken from the channel while a link is pending decides
\* that link, whatever link the decision names: on approval the pending
\* link is the next discovered link and is enqueued at depth + 1 (C12's
\* pairing of discovered links and frontier entries), and the page's
\* `discovered` event lists it; on refusal the pending link is dropped.  A
\* `steering_needed` event was emitted for the pending link.
C22_DecisionDecidesPending ==
  \A s \in StreamIds :
    LET f == Frame(s)
        page == PageEvents(f)
        links == PageLinks(f.url)
    IN InLinkLoop(f) =>
         \A k \in 1 .. Len(f.taken) :
           LET t == f.taken[k] IN
           /\ CountUrl(page, "steering_needed", t.pending) >= 1
           /\ t.approve =>
                /\ Len(f.discovered_links) > t.before
                /\ f.discovered_links[t.before + 1] = t.pending
                /\ Len(f.queue) >= Len(f.discovered_links)
                /\ Enqueued(f)[t.before + 1] = Entry(t.pending, f.depth + 1)
                /\ f.pc = "sleep" =>
                     /\ page[Len(page)].type = "discovered"
                     /\ page[Len(page)].links = f.discovered_links
           /\ (~t.approve /\ Count(links, t.pending) = 1) =>
                /\ t.pending \notin Range(f.discovered_links)
                /\ \A i \in 1 .. Len(f.queue) :
                     f.queue[i] # Entry(t.pending, f.depth + 1)

\* The cross-domain link was pending and a decision approving /docs was
\* taken: the cross-domain link is enqueued and listed in `discovered`, and
\* /docs, which the router rejected, is not.
C22_Witness ==
  \E s \in StreamIds :
    LET f == Frame(s)
        page == PageEvents(f)
    IN /\ f.pc = "sleep" /\ f.url = UrlStart
       /\ Len(f.taken) = 1
       /\ f.taken[1].approve /\ f.taken[1].link = UrlDocs
       /\ f.taken[1].pending = UrlOther
       /\ Entry(UrlOther, 1) \in Range(f.queue)
       /\ UrlOther \in Range(page[Len(page)].links)
       /\ UrlDocs \notin Range(f.discovered_links)

\* The streams of job j whose generator waits for a steering decision.
PendingRequests(j) ==
  {s \in StreamIds : Frame(s).job = j /\ Resumes(s, "steer")}

\* C23: within one job at most one steering request is pending at any time,
\* and while one is pending no stream of the job emits an event or changes
\* its counters or its frontier unless the step resolves a pending request.
C23_OnePendingRequest ==
  /\ [](\A j \in JobIds : Cardinality(PendingRequests(j)) <= 1)
  /\ [][\A j \in JobIds : \A s \in StreamIds :
          (PendingRequests(j) # {} /\ streams[s].job = j /\ streams'[s].job = j
             /\ streams'[s] # streams[s])
            => s \in PendingRequests(j)]_vars

\* The streams that have started a traversal of job j.
Traversals(j) ==
  {s \in StreamIds : Frame(s).job = j /\ Frame(s).pc \notin {"none", "init"}}

\* C25: a job is traversed at most once, and at most one generator holds the
\* job's steering queue: opening the stream endpoint again starts no second
\* traversal.
C25_OneTraversalPerJob ==
  \A j \in JobIds :
    /\ Cardinality(Traversals(j)) <= 1
    /\ Cardinality({s \in StreamIds : /\ Frame(s).job = j
                                      /\ Frame(s).steering_queue # None}) <= 1

\* C24: the delay is awaited once for every entry that is crawled, also when
\* its fetch fails: a traversal that has made a fetch request emits its next
\* `crawling` event, and makes its next fetch request, only when it wakes
\* from the delay.
C24_DelayBeforeEveryFetch ==
  [][\A s \in StreamIds :
       LET f == streams[s]
           g == streams'[s]
       IN (/\ f.pc \in Crawling
           /\ g.pc = "fetch"
           /\ g.job = f.job
           /\ Len(g.events) = Len(f.events) + 1
           /\ g.events[Len(g.events)].type = "crawling")
            => f.pc = "sleep"]_vars

\* The link of the page was auto-admitted: discovered, never asked about.
WasAdmitted(f) ==
  /\ f.pc = "sleep"
  /\ f.discovered_links = <<UrlOther>>
  /\ f.queue = <<Entry(UrlOther, f.depth + 1)>>
  /\ CountType(PageEvents(f), "steering_needed") = 0

\* A steering request was made for the link of the page.
WasAsked(f) ==
  /\ PageEvents(f)[1] = SteeringNeededEvent(UrlOther)
  /\ CountType(PageEvents(f), "steering_needed") = 1
  /\ f.pc = "steer" => f.discovered_links = <<>> /\ f.queue = <<>>

\* The link of the page was rejected: not discovered, never asked about.
WasRejected(f) ==
  /\ f.pc = "sleep"
  /\ f.discovered_links = <<>> /\ f.queue = <<>>
  /\ PageEvents(f) = <<>>

\* The one link of the small site's start page has been evaluated by a
\* traversal that has a steering queue.
OneLinkEvaluated(f) ==
  InLinkLoop(f) /\ f.url = UrlStart /\ Len(f.calls) = 1 /\ f.steering_queue # None

\* C26 as claimed: confidence > 0.8 is auto-admitted; 0.5 < confidence <= 0.8
\* with a positive recommendation is asked about; anything else is rejected.
C26_TierByConfidence ==
  \A s \in StreamIds :
    LET f == Frame(s)
        v == f.calls[1].verdict
    IN OneLinkEvaluated(f) =>
         IF v.confidence > 80 THEN WasAdmitted(f)
         ELSE IF v.should_crawl /\ 50 < v.confidence /\ v.confidence <= 80
              THEN WasAsked(f)
         ELSE WasRejected(f)

\* C26 as amended: a positive recommendation with confidence > 0.8 is
\* auto-admitted; a positive recommendation with 0.5 < confidence <= 0.8 is
\* asked about when the traversal has a steering queue; anything else,
\* including a negative recommendation of any confidence, is rejected.  A
\* positive 0.8 is asked about, a positive 0.5 is rejected.
C26_TierByVerdict ==
  \A s \in StreamIds :
    LET f == Frame(s)
        v == f.calls[1].verdict
    IN /\ OneLinkEvaluated(f) =>
            IF v.should_crawl /\ v.confidence > 80 THEN WasAdmitted(f)
            ELSE IF v.should_crawl /\ 50 < v.confidence /\ v.confidence <= 80
                 THEN WasAsked(f)
            ELSE WasRejected(f)
       /\ (InLinkLoop(f) /\ f.url = UrlStart /\ Len(f.calls) = 1
             /\ f.steering_queue = None) =>
            IF v.should_crawl /\ v.confidence > 80 THEN WasAdmitted(f)
            ELSE WasRejected(f)

\* A positive verdict of confidence exactly 0.8 has led to a steering
\* request.
C26_Witness ==
  \E s \in StreamIds :
    LET f == Frame(s) IN
    /\ OneLinkEvaluated(f)
    /\ f.calls[1].verdict = Verdict(TRUE, 80)
    /\ f.pc = "steer"
    /\ f.events[Len(f.events)] = SteeringNeededEvent(UrlOther)

\* C27: the crawler budgets held in the settings are within their declared
\* bounds: 1 <= max_depth <= 10 and 1 <= max_pages <= 1000.
C27_SettingsWithinBounds ==
  /\ settings.max_depth >= DepthMin /\ settings.max_depth <= DepthMax
  /\ settings.max_pages >= PagesMin /\ settings.max_pages <= PagesMax

\* C28: after any interleaving of start, steer and delete requests, the
\* jobs that have a steering queue are exactly the jobs in the job table,
\* each with a queue of its own, so a steering submission for an existing
\* job always finds its queue.
C28_ChannelsMatchJobs ==
  /\ DOMAIN steering_queues = DOMAIN active_jobs
  /\ \A j, k \in DOMAIN steering_queues :
       steering_queues[j] = steering_queues[k] => j = k
  /\ \A j \in DOMAIN active_jobs :
       Len(queue_items[steering_queues[j]]) < MaxQueued
         => \A d \in Decisions : ENABLED SteerCrawl(j, d)

\* The first job was deleted and the second one holds a decision in its
\* queue.
C28_Witness ==
  /\ next_job > MaxJobs
  /\ DOMAIN active_jobs = {MaxJobs}
  /\ DOMAIN steering_queues = {MaxJobs}
  /\ queue_items[steering_queues[MaxJobs]] # <<>>

\* C29: no `steering_needed` event is emitted for a link whose host is the
\* crawl's base domain, and no generator waits for a decision about such a
\* link: every evaluation of a same-domain link ends in the admit tier or in
\* the reject tier, whatever the oracle answered.
C29_NoSteeringForSameDomain ==
  \A s \in StreamIds :
    LET f == Frame(s)
        base_domain == extract_domain(f.start_url)
    IN f.pc # "none" =>
         /\ \A i \in 1 .. Len(f.events) :
              f.events[i].type = "steering_needed"
                => Netloc(f.events[i].url) # base_domain
         /\ f.pc = "steer" => Netloc(PageLinks(f.url)[f.idx]) # base_domain
         /\ \A k \in 1 .. Len(f.calls) :
              Netloc(f.calls[k].link) = base_domain
                => Tier(f.calls[k].verdict, f.steering_queue # None)
                     \in {"admit", "reject"}

\* The oracle answered "crawl, confidence 0.65" for the same-domain /docs
\* link (mid tier without the floor) and the page was finished without a
\* steering request for it, while a cross-domain link of the page was asked
\* about.
C29_Witness ==
  \E s \in StreamIds :
    LET f == Frame(s) IN
    /\ f.pc = "sleep" /\ f.url = UrlStart /\ f.steering_queue # None
    /\ \E k \in 1 .. Len(f.calls) :
         /\ f.calls[k].link = UrlDocs
         /\ f.calls[k].reply = [kind |-> "ok", should_crawl |-> TRUE, confidence |-> 65]
    /\ CountUrl(PageEvents(f), "steering_needed", UrlDocs) = 0
    /\ CountUrl(PageEvents(f), "steering_needed", UrlOther) = 1

\* C30: in a stream that has a `completed` event, the event's total_pages
\* is the number of `stored` events of the stream and its total_chunks
\* equals its total_pages; in every stream each `stored` event directly
\* follows the `crawling` event for the same URL, so there are never more
\* `stored` events than `crawling` events.
C30_TotalsMatchStoredEvents ==
  \A s \in StreamIds :
    LET f == Frame(s)
        evs == f.events
    IN /\ \A i \in 1 .. Len(evs) :
            evs[i].type = "completed" =>
              /\ evs[i].total_pages = CountType(evs, "stored")
              /\ evs[i].total_chunks = evs[i].total_pages
       /\ \A i \in 1 .. Len(evs) :
            evs[i].type = "stored" =>
              /\ i > 1
              /\ evs[i - 1] = CrawlingEvent(evs[i].url)
       /\ CountType(evs, "stored") <= CountType(evs, "crawling")

\* A stream ended with `completed` after two pages were stored and at least
\* one more URL was announced whose fetch returned nothing.
C30_Witness ==
  \E s \in StreamIds :
    LET f == Frame(s)
        evs == f.events
    IN /\ f.pc = "done"
       /\ evs # <<>>
       /\ evs[Len(evs)] = CompletedEvent(2, 2)
       /\ CountType(evs, "stored") = 2
       /\ CountType(evs, "crawling") > 2

====
